---- MODULE Spec2Model ----
(***************************************************************************)
(* A model of reddit_comment_exporter.py: the Comment Tree Builder         *)
(* (process_comments), the Markdown Renderer (format_comment,              *)
(* format_nested_reply, generate_markdown) and the run of main().          *)
(*                                                                         *)
(* JSON values are tagged records.  A Python string is a sequence of       *)
(* tokens: "\n", ">" and " " are single characters, body text is spelled   *)
(* character by character, and every fixed literal of an f-string (and     *)
(* every user name) is one token.  split/join/startswith work on these     *)
(* sequences exactly as the Python methods work on characters.             *)
(***************************************************************************)
EXTENDS Integers, Sequences, FiniteSets, TLC

VARIABLES
  pc,                 \* where the run stands
  reddit_url,         \* the URL read from standard input
  extracted_post_id,  \* the post id taken from the URL
  io,                 \* the external operations performed so far, in order
  data,               \* the JSON the fetch returned
  original_url,       \* the URL the Markdown links to
  comments_data,      \* the comment listing given to the Builder
  post_data,          \* the post's fields
  comments,           \* what process_comments returned (or raised)
  markdown,           \* the assembled Markdown
  fs,                 \* the output directory: whether it exists, and its files
  out                 \* the messages printed

vars == <<pc, reddit_url, extracted_post_id, io, data, original_url, comments_data,
          post_data, comments, markdown, fs, out>>

\* Largest number of entries (comments and "more" placeholders) in a generated listing.
MaxNodes == 3

(***************************************************************************)
(* JSON values                                                             *)
(***************************************************************************)
JNull == [ty |-> "null"]
JStr(s) == [ty |-> "str", s |-> s]
JNum(n) == [ty |-> "num", n |-> n]
JList(l) == [ty |-> "list", items |-> l]
JDict(d) == [ty |-> "dict", d |-> d]

\* Python truthiness (`not x`).
Truthy(v) ==
  CASE v.ty = "null" -> FALSE
    [] v.ty = "str" -> v.s /= <<>>
    [] v.ty = "num" -> v.n /= 0
    [] v.ty = "list" -> v.items /= <<>>
    [] v.ty = "dict" -> DOMAIN v.d /= {}

\* isinstance(v, dict)
IsDict(v) == v.ty = "dict"

\* `key in v` for a dict v
Has(v, key) == key \in DOMAIN v.d

\* v.get(key, default)
Get(v, key, default) == IF Has(v, key) THEN v.d[key] ELSE default

\* v == "literal" for a one-token literal
IsLit(v, lit) == v.ty = "str" /\ v.s = <<lit>>

\* str(v), as an f-string interpolates it
Str(v) ==
  CASE v.ty = "str" -> v.s
    [] v.ty = "num" -> <<ToString(v.n)>>
    [] v.ty = "null" -> <<"None">>
    [] OTHER -> <<"<repr>">>

(***************************************************************************)
(* String helpers                                                          *)
(***************************************************************************)
\* The elements of a finite set of integers in increasing order.
SortedSeq(S) ==
  [k \in 1..Cardinality(S) |-> CHOOSE i \in S : Cardinality({j \in S : j <= i}) = k]

\* s.split("\n"): the pieces between consecutive newlines (one more than there are newlines).
Split(s) ==
  LET nl == SortedSeq({i \in 1..Len(s) : s[i] = "\n"})
      n == Len(nl)
  IN [k \in 1..(n + 1) |->
        SubSeq(s, (IF k = 1 THEN 1 ELSE nl[k - 1] + 1), (IF k = n + 1 THEN Len(s) ELSE nl[k] - 1))]

\* "\n".join(lines)
RECURSIVE Join(_)
Join(lines) ==
  IF lines = <<>> THEN <<>>
  ELSE IF Len(lines) = 1 THEN lines[1]
  ELSE lines[1] \o <<"\n">> \o Join(Tail(lines))

\* [prefix + line for line in lines]
Prefixed(prefix, lines) == [i \in 1..Len(lines) |-> prefix \o lines[i]]

(***************************************************************************)
(* Comment Tree Builder                                                    *)
(***************************************************************************)
Ok(v) == [err |-> "none", val |-> v]
Raise(e) == [err |-> e, val |-> <<>>]

DELETED == JStr(<<"[deleted]">>)

RECURSIVE process_comments(_, _)
RECURSIVE process_children(_, _, _)

\* Lines 86-93 with the depth of the replies left as it is: a mutant.
process_replies_same_depth(comment_data, depth) ==
  IF Has(comment_data, "replies")
     /\ Truthy(comment_data.d["replies"])
     /\ IsDict(comment_data.d["replies"])
  THEN process_comments(comment_data.d["replies"], depth)
  ELSE Ok(<<>>)

\* Lines 86-93: the replies of a comment, processed one level deeper.
process_replies(comment_data, depth) ==
  IF Has(comment_data, "replies")
     /\ Truthy(comment_data.d["replies"])
     /\ IsDict(comment_data.d["replies"])
  THEN process_comments(comment_data.d["replies"], depth + 1)
  ELSE Ok(<<>>)

\* Lines 76-83: the Comment record.
processed_comment(comment_data, depth, replies) ==
  [author |-> Get(comment_data, "author", DELETED),
   body |-> Get(comment_data, "body", DELETED),
   score |-> Get(comment_data, "score", JNum(0)),
   created_utc |-> Get(comment_data, "created_utc", JNull),
   depth |-> depth,
   replies |-> replies]

\* The for loop with a "more" entry ending it (break for continue): a mutant.
RECURSIVE process_children_break(_, _, _)
process_children_break(children, depth, acc) ==
  IF children = <<>> THEN Ok(acc)
  ELSE
    LET comment == Head(children)
        rest == Tail(children)
    IN
    IF ~IsDict(comment) THEN Raise("TypeError")
    ELSE IF ~Has(comment, "kind") THEN Raise("KeyError")
    ELSE IF IsLit(comment.d["kind"], "more") THEN Ok(acc)
    ELSE IF IsLit(comment.d["kind"], "t1") THEN
      IF ~Has(comment, "data") THEN Raise("KeyError")
      ELSE IF ~IsDict(comment.d["data"]) THEN Raise("AttributeError")
      ELSE
        LET replies == process_replies(comment.d["data"], depth) IN
        IF replies.err /= "none" THEN replies
        ELSE process_children_break(
               rest, depth,
               Append(acc, processed_comment(comment.d["data"], depth, replies.val)))
    ELSE process_children_break(rest, depth, acc)

\* The for loop (lines 67-95) over the children still to do, appending to acc.
process_children(children, depth, acc) ==
  IF children = <<>> THEN Ok(acc)
  ELSE
    LET comment == Head(children)
        rest == Tail(children)
    IN
    IF ~IsDict(comment) THEN Raise("TypeError")
    ELSE IF ~Has(comment, "kind") THEN Raise("KeyError")
    ELSE IF IsLit(comment.d["kind"], "more") THEN process_children(rest, depth, acc)
    ELSE IF IsLit(comment.d["kind"], "t1") THEN
      IF ~Has(comment, "data") THEN Raise("KeyError")
      ELSE IF ~IsDict(comment.d["data"]) THEN Raise("AttributeError")
      ELSE
        LET replies == process_replies(comment.d["data"], depth) IN
        IF replies.err /= "none" THEN replies
        ELSE process_children(
               rest, depth,
               Append(acc, processed_comment(comment.d["data"], depth, replies.val)))
    ELSE process_children(rest, depth, acc)

process_comments(listing, depth) ==
  IF ~Truthy(listing) \/ ~IsDict(listing) \/ ~Has(listing, "data")
  THEN Ok(<<>>)
  ELSE
    LET d == listing.d["data"] IN
    IF ~IsDict(d) THEN Raise("TypeError")
    ELSE IF ~Has(d, "children") THEN Raise("KeyError")
    ELSE
      LET children == d.d["children"] IN
      IF children.ty = "list" THEN process_children(children.items, depth, <<>>)
      ELSE IF children.ty \in {"str", "dict"} /\ ~Truthy(children) THEN Ok(<<>>)
      ELSE Raise("TypeError")

(***************************************************************************)
(* Markdown Renderer                                                       *)
(***************************************************************************)
\* strftime("%B %d, %Y at %I:%M %p") of a timestamp is one opaque token per timestamp.
format_timestamp(timestamp) ==
  IF ~Truthy(timestamp) THEN <<"Unknown date">>
  ELSE <<"strftime(" \o ToString(timestamp.n) \o ")">>

\* The attribution with the link written for every author: a mutant.
attribution_always_linked(author, score, date_str) ==
  <<"**[u/">> \o Str(author) \o <<"](https://www.reddit.com/user/">> \o Str(author)
  \o <<")**", " (middot) ">> \o Str(score) \o <<" points (middot) ">> \o date_str

\* The attribution f-string shared by top-level comments and nested replies.
\* The token " (middot) " stands for the literal " · ".
attribution(author, score, date_str) ==
  IF author /= DELETED
  THEN <<"**[u/">> \o Str(author) \o <<"](https://www.reddit.com/user/">> \o Str(author)
       \o <<")**", " (middot) ">> \o Str(score) \o <<" points (middot) ">> \o date_str
  ELSE <<"**u/">> \o Str(author) \o <<"**", " (middot) ">> \o Str(score)
       \o <<" points (middot) ">> \o date_str

\* date_str = format_timestamp(created_utc) if created_utc else ""
comment_date_str(comment) ==
  IF Truthy(comment.created_utc) THEN format_timestamp(comment.created_utc) ELSE <<>>

RECURSIVE format_nested_reply(_)
RECURSIVE nested_replies(_)

\* The loop of format_nested_reply without the extra quote marker: a mutant.
RECURSIVE nested_replies_not_deeper(_)
nested_replies_not_deeper(replies) ==
  IF replies = <<>> THEN <<>>
  ELSE format_nested_reply(Head(replies)) \o <<"\n">>
       \o nested_replies_not_deeper(Tail(replies))

\* The loop over comment["replies"] of format_nested_reply (lines 169-174).
nested_replies(replies) ==
  IF replies = <<>> THEN <<>>
  ELSE
    LET nested_reply == format_nested_reply(Head(replies))
        nested_lines == Split(nested_reply)
        deeper_nested == Join(Prefixed(<<">">>, nested_lines))
    IN deeper_nested \o <<"\n">> \o nested_replies(Tail(replies))

format_nested_reply(comment) ==
  LET date_str == comment_date_str(comment)
      body_lines == Split(Str(comment.body))
      formatted_body == Join(Prefixed(<<">", " ">>, body_lines))
  IN <<">", " ">> \o attribution(comment.author, comment.score, date_str)
     \o <<"\n", ">", "\n">>
     \o formatted_body \o <<"\n", ">", "\n">>
     \o nested_replies(comment.replies)

\* The loop of format_comment with the replies taken last to first: a mutant.
RECURSIVE top_level_replies_reversed(_)
top_level_replies_reversed(replies) ==
  IF replies = <<>> THEN <<>>
  ELSE top_level_replies_reversed(Tail(replies)) \o format_nested_reply(Head(replies))

\* The loop over comment["replies"] of format_comment (lines 134-136).
RECURSIVE top_level_replies(_)
top_level_replies(replies) ==
  IF replies = <<>> THEN <<>>
  ELSE format_nested_reply(Head(replies)) \o top_level_replies(Tail(replies))

format_comment(comment, is_top_level) ==
  LET date_str == comment_date_str(comment) IN
  IF is_top_level \/ comment.depth = 0
  THEN attribution(comment.author, comment.score, date_str) \o <<"\n", "\n">>
       \o Str(comment.body) \o <<"\n", "\n">>
       \o top_level_replies(comment.replies)
       \o <<"---", "\n", "\n">>
  ELSE <<>>

\* The loop over the top-level comments of generate_markdown (lines 210-211).
RECURSIVE top_level_comments(_)
top_level_comments(cs) ==
  IF cs = <<>> THEN <<>>
  ELSE format_comment(Head(cs), TRUE) \o top_level_comments(Tail(cs))

RECURSIVE count_all_comments(_)
RECURSIVE count_replies(_)
\* The loop of count_all_comments (lines 221-222).
count_replies(cs) ==
  IF cs = <<>> THEN 0
  ELSE count_all_comments(Head(cs).replies) + count_replies(Tail(cs))

count_all_comments(cs) == Len(cs) + count_replies(cs)

\* The comments section with every comment counted in the heading: a mutant.
comments_section_counts_all(cs) ==
  IF cs /= <<>>
  THEN <<"## Comments (", ToString(count_all_comments(cs)), " top-level comments)", "\n", "\n">>
       \o top_level_comments(cs)
  ELSE <<"## Comments", "\n", "\n", "No comments found.", "\n", "\n">>

\* The comments section of generate_markdown (lines 205-213).
comments_section(cs) ==
  IF cs /= <<>>
  THEN <<"## Comments (", ToString(Len(cs)), " top-level comments)", "\n", "\n">>
       \o top_level_comments(cs)
  ELSE <<"## Comments", "\n", "\n", "No comments found.", "\n", "\n">>

\* The post's attribution line of generate_markdown (lines 188-196).
post_attribution(post) ==
  LET author == Get(post, "author", DELETED)
      score == Get(post, "score", JNum(0))
      created_utc == Get(post, "created_utc", JNull)
      date_str == IF Truthy(created_utc) THEN format_timestamp(created_utc)
                  ELSE <<"Unknown date">>
  IN IF author /= DELETED
     THEN <<"**Posted by [u/">> \o Str(author) \o <<"](https://www.reddit.com/user/">>
          \o Str(author) \o <<")**", " (middot) ">> \o Str(score)
          \o <<" points (middot) ">> \o date_str \o <<"\n", "\n">>
     ELSE <<"**Posted by u/">> \o Str(author) \o <<"**", " (middot) ">> \o Str(score)
          \o <<" points (middot) ">> \o date_str \o <<"\n", "\n">>

generate_markdown(post, cs, url) ==
  LET selftext == Get(post, "selftext", JStr(<<>>)) IN
  <<"# ">> \o Str(Get(post, "title", JStr(<<"Untitled Post">>))) \o <<"\n", "\n">>
  \o <<"[Original Reddit Post](">> \o url \o <<")", "\n", "\n">>
  \o post_attribution(post)
  \o (IF Truthy(selftext) THEN Str(selftext) \o <<"\n", "\n">> ELSE <<>>)
  \o <<"---", "\n", "\n">>
  \o comments_section(cs)

(***************************************************************************)
(* Inputs: listings in the shape of Reddit's JSON                          *)
(***************************************************************************)
\* {"kind": "Listing", "data": {"children": [...]}}
Listing(children) ==
  JDict([kind |-> JStr(<<"Listing">>), data |-> JDict([children |-> JList(children)])])

\* The fields of the comments the listings are built from (without "replies").
cBob ==
  [author |-> JStr(<<"bob">>), body |-> JStr(<<"x">>), score |-> JNum(5),
   created_utc |-> JNum(1), replies |-> JStr(<<>>)]

\* No timestamp; a body that starts with a quote character and holds a blank line.
cAmy ==
  [author |-> JStr(<<"amy">>), body |-> JStr(<<">", "q", "\n", "\n", "y">>),
   score |-> JNum(2)]

cDel ==
  [author |-> DELETED, body |-> DELETED, score |-> JNum(-1),
   created_utc |-> JNum(2), replies |-> JStr(<<>>)]

CommentPool == {cBob, cAmy, cDel}

\* A comment entry; with no replies the "replies" field stays as the pool gives it
\* (absent, or Reddit's empty string).
Comment(fields, replies) ==
  JDict([kind |-> JStr(<<"t1">>),
         data |-> JDict(IF replies = <<>> THEN fields
                        ELSE ("replies" :> Listing(replies)) @@ fields)])

\* A comment that only a "more" placeholder leads to.
Ghost ==
  Comment([author |-> JStr(<<"ghost">>), body |-> JStr(<<"g">>), score |-> JNum(9),
           created_utc |-> JNum(3)], <<>>)

\* A "more" placeholder; something is nested under it so that dropping it shows.
More ==
  JDict([kind |-> JStr(<<"more">>),
         data |-> JDict([count |-> JNum(1), children |-> JList(<<JStr(<<"id1">>)>>),
                         replies |-> Listing(<<Ghost>>)])])

RECURSIVE ForestsOf(_)
RECURSIVE TreesOf(_)
\* Entries with exactly n nodes (n >= 1).
TreesOf(n) ==
  (IF n = 1 THEN {More} ELSE {})
  \cup {Comment(c, f) : c \in CommentPool, f \in ForestsOf(n - 1)}

\* Sequences of entries with exactly n nodes in all.
ForestsOf(n) ==
  IF n = 0 THEN {<<>>}
  ELSE UNION {{<<t>> \o rest : t \in TreesOf(k), rest \in ForestsOf(n - k)} : k \in 1..n}

\* Sequences of entries with at most n nodes in all.
Forests(n) == UNION {ForestsOf(k) : k \in 0..n}

\* Listings that are not of the shape {data: {children: [{kind, data}, ...]}},
\* and entries of kinds the Builder has no case for.
MalformedListings ==
  {JNull, JStr(<<>>), JStr(<<"x">>), JNum(0), JNum(7), JList(<<>>),
   JList(<<Comment(cBob, <<>>)>>), JDict(<<>>),
   JDict([kind |-> JStr(<<"Listing">>)]),
   JDict([data |-> JNull]),
   JDict([data |-> JDict([after |-> JNull])]),
   JDict([data |-> JDict([children |-> JNull])]),
   Listing(<<JDict([data |-> JDict(cBob)])>>),
   Listing(<<Comment(cBob, <<>>), JStr(<<"t1">>)>>),
   Listing(<<JDict([kind |-> JStr(<<"t1">>)])>>)}

\* A thread four levels deep, with "more" placeholders at two levels.
DeepThread ==
  Listing(<<Comment(cAmy, <<Comment(cBob, <<Comment(cDel, <<Comment(cAmy, <<>>)>>),
                                            More,
                                            Comment(cAmy, <<>>)>>),
                            Comment(cAmy, <<>>)>>),
            More,
            Comment(cDel, <<>>)>>)

\* Well-shaped listings at the edge: an entry of another kind, a comment with no
\* fields at all, replies that are an empty or a key-less object; and the deep thread.
EdgeListings ==
  {DeepThread,
   Listing(<<JDict([kind |-> JStr(<<"t3">>), data |-> JDict(cBob)]), Comment(cAmy, <<>>)>>),
   Listing(<<Comment(<<>>, <<>>)>>),
   Listing(<<Comment([replies |-> JDict(<<>>)], <<>>)>>),
   Listing(<<Comment([author |-> JStr(<<"bob">>), replies |-> JDict([kind |-> JStr(<<"Listing">>)])], <<>>)>>)}

Listings ==
  {Listing(f) : f \in Forests(MaxNodes)} \cup EdgeListings \cup MalformedListings

Posts ==
  {JDict([title |-> JStr(<<"M", "y", " ", "P", "!">>), author |-> JStr(<<"alice">>),
          score |-> JNum(10), created_utc |-> JNum(4),
          selftext |-> JStr(<<"h", "\n", ">", "i">>)]),
   JDict([title |-> JStr(<<"H", "i">>), author |-> DELETED, selftext |-> JStr(<<>>)]),
   JDict(<<>>)}

SampleUrl == <<"https://", "www", ".", "reddit", ".", "com", "/", "comments/", "abc123", "/", "t", "/">>

(***************************************************************************)
(* The Builder and the Renderer as pure functions of a listing and a post  *)
(***************************************************************************)
Unset == [ty |-> "unset"]

InitTree ==
  /\ pc = "listing"
  /\ comments_data \in Listings
  /\ reddit_url = <<>>
  /\ extracted_post_id = <<>>
  /\ io = <<>>
  /\ data = Unset
  /\ original_url = SampleUrl
  /\ post_data = Unset
  /\ comments = Ok(<<>>)
  /\ markdown = <<>>
  /\ fs = [dir |-> TRUE, files |-> <<>>]
  /\ out = <<>>

\* comments = process_comments(comments_data)
Build ==
  /\ pc = "listing"
  /\ comments' = process_comments(comments_data, 0)
  /\ pc' = IF comments'.err = "none" THEN "built" ELSE "raised"
  /\ UNCHANGED <<reddit_url, extracted_post_id, io, data, original_url,
                 comments_data, post_data, markdown, fs, out>>

\* markdown = generate_markdown(post_data, comments, original_url)
Render ==
  /\ pc = "built"
  /\ \E post \in Posts :
       /\ post_data' = post
       /\ markdown' = generate_markdown(post, comments.val, original_url)
  /\ pc' = "rendered"
  /\ UNCHANGED <<reddit_url, extracted_post_id, io, data, original_url,
                 comments_data, comments, fs, out>>

NextTree ==
  \/ Build
  \/ Render

SpecTree == InitTree /\ [][NextTree]_vars

(***************************************************************************)
(* fetch_reddit_data: URLs and responses                                   *)
(***************************************************************************)
\* A URL is a sequence of tokens: a scheme token ("https://"), host labels and
\* dots, "/" and path segments, ".json".

\* url.startswith(("http://", "https://"))
StartsWithScheme(url) == url /= <<>> /\ url[1] \in {"http://", "https://"}

\* url.endswith(".json")
EndsWithJson(url) == url /= <<>> /\ url[Len(url)] = ".json"

\* Lines 14-15: make sure the URL has a scheme.
normalized(url) == IF StartsWithScheme(url) THEN url ELSE <<"https://">> \o url

\* urlparse(url).netloc of a URL that starts with a scheme: what follows the scheme
\* up to the first "/", "?" or "#".
RECURSIVE TakeHost(_)
TakeHost(s) ==
  IF s = <<>> \/ s[1] \in {"/", "?", "#"} THEN <<>>
  ELSE <<s[1]>> \o TakeHost(Tail(s))

netloc(url) == TakeHost(Tail(url))

\* `sub in s` for strings
Contains(s, sub) ==
  \E i \in 0..(Len(s) - Len(sub)) : SubSeq(s, i + 1, i + Len(sub)) = sub

\* Line 26
RedditDomains ==
  {<<"reddit", ".", "com">>, <<"www", ".", "reddit", ".", "com">>,
   <<"old", ".", "reddit", ".", "com">>}

\* Lines 23-27: the URL passes the validation.
valid_url(url) ==
  /\ netloc(url) /= <<>>
  /\ \E domain \in RedditDomains : Contains(netloc(url), domain)

\* Lines 18-20
original_url_of(url) ==
  IF EndsWithJson(url) THEN SubSeq(url, 1, Len(url) - 1) ELSE url

\* Lines 31-32
json_url(url) == IF EndsWithJson(url) THEN url ELSE Append(url, ".json")

\* The URLs typed at the prompt.
Urls ==
  {<<"https://", "www", ".", "reddit", ".", "com", "/", "comments/", "abc123", "/", "t", "/">>,
   <<"old", ".", "reddit", ".", "com", "/", "comments/", "abc123", "/", "t", "/", ".json">>,
   <<"http://", "evil", "reddit", ".", "com", "/", "x">>,
   <<"https://", "example", ".", "org", "/", "comments/", "abc123", "/">>,
   <<>>}

\* Tokens that match [a-z0-9]+ (ignoring case).
AlnumTokens == {"abc123", "t", "x", "www", "old", "reddit", "com", "evil", "example", "org"}

\* re.search(r"comments/([a-z0-9]+)/", reddit_url): the places where it matches.
post_id_match(url) ==
  {i \in 1..(Len(url) - 2) :
     url[i] = "comments/" /\ url[i + 1] \in AlnumTokens /\ url[i + 2] = "/"}

\* Lines 241-246
extract_post_id(url) ==
  IF post_id_match(url) = {} THEN <<"unknown">>
  ELSE LET i == CHOOSE j \in post_id_match(url) : \A k \in post_id_match(url) : j <= k
       IN <<url[i + 1]>>

\* {"kind": "Listing", "data": {"children": [{"kind": "t3", "data": post}]}}
PostListing(post) ==
  Listing(<<JDict([kind |-> JStr(<<"t3">>), data |-> post])>>)

\* The comment listings a response of the run carries.
MainListings ==
  {Listing(f) : f \in Forests(1)}
  \cup {Listing(<<Comment(cBob, <<Comment(cAmy, <<>>)>>)>>),
        JDict([data |-> JDict([after |-> JNull])])}

\* The JSON bodies of a 200 response.
Payloads ==
  {JNull, JList(<<>>), JNum(5), JStr(<<"o", "k">>),
   JList(<<PostListing(JDict(<<>>))>>),
   JDict([message |-> JStr(<<"Forbidden">>), error |-> JNum(403)]),
   JList(<<Listing(<<>>), Listing(<<>>)>>),
   JList(<<PostListing(JNull), Listing(<<>>)>>)}
  \cup {JList(<<PostListing(p), l>>) : p \in Posts, l \in MainListings}

NotJson == [ty |-> "invalid"]

\* What requests.get meets: no connection (status -1), or a status and a body.
Responses ==
  {[status |-> -1, body |-> NotJson], [status |-> 429, body |-> NotJson],
   [status |-> 404, body |-> NotJson], [status |-> 200, body |-> NotJson]}
  \cup {[status |-> 200, body |-> j] : j \in Payloads}

(***************************************************************************)
(* Subscripting and len() on JSON values, with Python's exceptions         *)
(***************************************************************************)
\* r[0]
Item0(r) ==
  IF r.err /= "none" THEN r
  ELSE LET v == r.val IN
    CASE v.ty = "list" -> IF v.items = <<>> THEN Raise("IndexError") ELSE Ok(v.items[1])
      [] v.ty = "str" -> IF v.s = <<>> THEN Raise("IndexError") ELSE Ok(JStr(<<v.s[1]>>))
      [] v.ty = "dict" -> Raise("KeyError")
      [] OTHER -> Raise("TypeError")

\* r[key] for a string key
ItemK(r, key) ==
  IF r.err /= "none" THEN r
  ELSE LET v == r.val IN
    IF v.ty = "dict" THEN (IF Has(v, key) THEN Ok(v.d[key]) ELSE Raise("KeyError"))
    ELSE Raise("TypeError")

\* len(v)
PyLen(v) ==
  CASE v.ty = "list" -> Ok(Len(v.items))
    [] v.ty = "str" -> Ok(Len(v.s))
    [] v.ty = "dict" -> Ok(Cardinality(DOMAIN v.d))
    [] OTHER -> Raise("TypeError")

(***************************************************************************)
(* The file name (lines 270-275)                                           *)
(***************************************************************************)
\* \w
WordTokens == {"M", "y", "P", "H", "i", "m", "p", "h", "untitled"}
\* \s
SpaceTokens == {" ", "\n"}

\* re.sub(r"[^\w\s-]", "", title)
RECURSIVE strip_non_word(_)
strip_non_word(s) ==
  IF s = <<>> THEN <<>>
  ELSE (IF s[1] \in WordTokens \cup SpaceTokens \cup {"-"} THEN <<s[1]>> ELSE <<>>)
       \o strip_non_word(Tail(s))

\* s.strip()
RECURSIVE lstrip(_)
lstrip(s) == IF s /= <<>> /\ s[1] \in SpaceTokens THEN lstrip(Tail(s)) ELSE s

RECURSIVE rstrip(_)
rstrip(s) ==
  IF s /= <<>> /\ s[Len(s)] \in SpaceTokens THEN rstrip(SubSeq(s, 1, Len(s) - 1)) ELSE s

\* s.lower()
lower(s) ==
  [i \in 1..Len(s) |->
     CASE s[i] = "M" -> "m" [] s[i] = "P" -> "p" [] s[i] = "H" -> "h" [] OTHER -> s[i]]

\* re.sub(r"[\s-]+", "-", s)
RECURSIVE collapse(_, _)
collapse(s, in_run) ==
  IF s = <<>> THEN <<>>
  ELSE IF s[1] \in SpaceTokens \cup {"-"}
       THEN (IF in_run THEN <<>> ELSE <<"-">>) \o collapse(Tail(s), TRUE)
       ELSE <<s[1]>> \o collapse(Tail(s), FALSE)

title_slug(title) == collapse(lower(rstrip(lstrip(strip_non_word(title)))), FALSE)

filename_of(post_id, post) ==
  post_id \o <<"-">> \o title_slug(Str(Get(post, "title", JStr(<<"untitled">>))))
  \o <<".md">>

\* What an output file held before the run.
OldContent == <<"old">>

(***************************************************************************)
(* The run of main()                                                       *)
(***************************************************************************)
Init ==
  /\ pc = "start"
  /\ reddit_url = <<>>
  /\ extracted_post_id = <<>>
  /\ io = <<>>
  /\ data = Unset
  /\ original_url = <<>>
  /\ comments_data = Unset
  /\ post_data = Unset
  /\ comments = Ok(<<>>)
  /\ markdown = <<>>
  /\ fs \in {[dir |-> FALSE, files |-> <<>>],
             [dir |-> TRUE, files |-> <<>>],
             [dir |-> TRUE,
              files |-> (<<"abc123", "-", "m", "y", "-", "p", ".md">> :> OldContent)]}
  /\ out = <<>>

\* Lines 229-237: create the output directory, read the URL.
Prompt ==
  /\ pc = "start"
  /\ \E url \in Urls : reddit_url' = url
  /\ fs' = [fs EXCEPT !.dir = TRUE]
  /\ out' = IF fs.dir THEN out ELSE Append(out, "Created output directory")
  /\ pc' = "extract"
  /\ UNCHANGED <<extracted_post_id, io, data, original_url, comments_data,
                 post_data, comments, markdown>>

\* Lines 241-246
ExtractPostId ==
  /\ pc = "extract"
  /\ extracted_post_id' = extract_post_id(reddit_url)
  /\ out' = IF post_id_match(reddit_url) = {}
            THEN Append(out, "Warning: Could not extract post ID from URL")
            ELSE out
  /\ pc' = "fetch"
  /\ UNCHANGED <<reddit_url, io, data, original_url, comments_data, post_data,
                 comments, markdown, fs>>

\* fetch_reddit_data raises ValueError (line 28); main prints it (lines 291-292).
FetchInvalid ==
  /\ pc = "fetch"
  /\ ~valid_url(normalized(reddit_url))
  /\ out' = Append(out, "Value error: Invalid Reddit URL")
  /\ pc' = "value_error"
  /\ UNCHANGED <<reddit_url, extracted_post_id, io, data, original_url,
                 comments_data, post_data, comments, markdown, fs>>

\* The fetch asking once more after a failed request: a mutant.
FetchGet_retries ==
  /\ pc = "fetch"
  /\ valid_url(normalized(reddit_url))
  /\ io' = Append(io, [op |-> "GET", url |-> json_url(normalized(reddit_url))])
  /\ \E response \in Responses :
       IF response.status /= 200 \/ response.body = NotJson
       THEN /\ out' = Append(out, "Network error")
            /\ pc' = IF io = <<>> THEN "fetch" ELSE "exit"
            /\ UNCHANGED <<data, original_url>>
       ELSE /\ data' = response.body
            /\ original_url' = original_url_of(normalized(reddit_url))
            /\ pc' = "shape"
            /\ UNCHANGED out
  /\ UNCHANGED <<reddit_url, extracted_post_id, comments_data, post_data,
                 comments, markdown, fs>>

\* fetch_reddit_data sends the GET (line 38) and handles the response (lines 41-52).
FetchGet ==
  /\ pc = "fetch"
  /\ valid_url(normalized(reddit_url))
  /\ io' = Append(io, [op |-> "GET", url |-> json_url(normalized(reddit_url))])
  /\ \E response \in Responses :
       IF response.status = 429
       THEN /\ out' = Append(out, "Error: Reddit rate limit exceeded")
            /\ pc' = "exit"
            /\ UNCHANGED <<data, original_url>>
       ELSE IF response.status /= 200 \/ response.body = NotJson
       THEN /\ out' = Append(out, "Network error")
            /\ pc' = "exit"
            /\ UNCHANGED <<data, original_url>>
       ELSE /\ data' = response.body
            /\ original_url' = original_url_of(normalized(reddit_url))
            /\ pc' = "shape"
            /\ UNCHANGED out
  /\ UNCHANGED <<reddit_url, extracted_post_id, comments_data, post_data,
                 comments, markdown, fs>>

\* Lines 252-259: the shape check and the post's fields.
CheckShape ==
  /\ pc = "shape"
  /\ LET n == PyLen(data)
         post == ItemK(Item0(ItemK(ItemK(Item0(Ok(data)), "data"), "children")), "data")
         listing == data.items[2]
     IN
     IF ~Truthy(data) \/ (n.err = "none" /\ n.val < 2)
     THEN /\ out' = Append(out, "Error: Invalid data format received from Reddit.")
          /\ pc' = "exit"
          /\ UNCHANGED <<post_data, comments_data>>
     ELSE IF n.err /= "none" \/ post.err /= "none"
     THEN /\ out' = Append(out, "Error: " \o (IF n.err /= "none" THEN n.err ELSE post.err))
          /\ pc' = "error"
          /\ UNCHANGED <<post_data, comments_data>>
     ELSE /\ post_data' = post.val
          /\ comments_data' = listing
          /\ pc' = "process"
          /\ UNCHANGED out
  /\ UNCHANGED <<reddit_url, extracted_post_id, io, data, original_url, comments,
                 markdown, fs>>

\* Lines 260-264
ProcessComments ==
  /\ pc = "process"
  /\ comments' = process_comments(comments_data, 0)
  /\ IF comments'.err = "none"
     THEN pc' = "generate" /\ UNCHANGED out
     ELSE pc' = "error" /\ out' = Append(out, "Error: " \o comments'.err)
  /\ UNCHANGED <<reddit_url, extracted_post_id, io, data, original_url,
                 comments_data, post_data, markdown, fs>>

\* Line 267; post_data.get needs a dict.
GenerateMarkdown ==
  /\ pc = "generate"
  /\ IF IsDict(post_data)
     THEN /\ markdown' = generate_markdown(post_data, comments.val, original_url)
          /\ pc' = "write"
          /\ UNCHANGED out
     ELSE /\ out' = Append(out, "Error: AttributeError")
          /\ pc' = "error"
          /\ UNCHANGED markdown
  /\ UNCHANGED <<reddit_url, extracted_post_id, io, data, original_url,
                 comments_data, post_data, comments, fs>>

\* Lines 270-289: the file name, the one write, the summary.  open() may fail
\* (nothing is changed), and f.write may fail after open() truncated the file.
WriteFile ==
  /\ pc = "write"
  /\ LET filepath == filename_of(extracted_post_id, post_data)
         existed == filepath \in DOMAIN fs.files
         seen == IF existed THEN Append(out, "File already exists") ELSE out
     IN
     \E outcome \in {"written", "open fails", "write fails"} :
       IF outcome = "written"
       THEN /\ fs' = [fs EXCEPT !.files = (filepath :> markdown) @@ fs.files]
            /\ io' = Append(io, [op |-> "WRITE", url |-> filepath])
            /\ out' = seen \o <<"Comments exported",
                                "Processed " \o ToString(Len(comments.val))
                                \o " top-level comments and "
                                \o ToString(count_all_comments(comments.val))
                                \o " total comments.">>
            /\ pc' = "done"
       ELSE IF outcome = "open fails"
       THEN /\ out' = Append(seen, "Error: OSError")
            /\ pc' = "error"
            /\ UNCHANGED <<fs, io>>
       ELSE /\ fs' = [fs EXCEPT !.files = (filepath :> <<>>) @@ fs.files]
            /\ io' = Append(io, [op |-> "WRITE", url |-> filepath])
            /\ out' = Append(seen, "Error: OSError")
            /\ pc' = "write_error"
  /\ UNCHANGED <<reddit_url, extracted_post_id, data, original_url, comments_data,
                 post_data, comments, markdown>>

Next ==
  \/ Prompt
  \/ ExtractPostId
  \/ FetchInvalid
  \/ FetchGet
  \/ CheckShape
  \/ ProcessComments
  \/ GenerateMarkdown
  \/ WriteFile

Spec == Init /\ [][Next]_vars

(***************************************************************************)
(* Reading the rendered Markdown back                                      *)
(***************************************************************************)
\* The number of ">" characters a line begins with.
MarkerCount(line) ==
  Cardinality({n \in 1..Len(line) : \A i \in 1..n : line[i] = ">"})

\* d quote markers
Markers(d) == [i \in 1..d |-> ">"]

\* A comment's attribution line: it holds the opening of "**[u/name](...)**" or of "**u/name**".
IsAttribution(line) == \E i \in 1..Len(line) : line[i] \in {"**[u/", "**u/"}

\* The indices of the attribution lines, in order.
Attributions(lines) == SortedSeq({i \in 1..Len(lines) : IsAttribution(lines[i])})

\* The comments of a tree in depth-first pre-order, siblings in source order.
RECURSIVE PreOrder(_)
PreOrder(cs) ==
  IF cs = <<>> THEN <<>>
  ELSE <<Head(cs)>> \o PreOrder(Head(cs).replies) \o PreOrder(Tail(cs))

\* A line without its quote markers and the space after them.
Unquoted(line) ==
  LET d == MarkerCount(line)
      rest == SubSeq(line, d + 1, Len(line))
  IN IF d > 0 /\ rest /= <<>> /\ rest[1] = " " THEN Tail(rest) ELSE rest

\* The attribution the Renderer gives comment c.
AttributionOf(c) == attribution(c.author, c.score, comment_date_str(c))

\* The tokens that open or close a hyperlink in an attribution.
LinkTokens == {"**[u/", "**Posted by [u/", "](https://www.reddit.com/user/"}

\* The rendered Markdown, line by line, and the comments it was rendered from.
MdLines == Split(markdown)
MdAttributions == Attributions(MdLines)
MdComments == PreOrder(comments.val)
Rendered == pc = "rendered"

(***************************************************************************)
(* C1: for every malformed or missing listing the Builder returns an empty *)
(* sequence and never raises.                                              *)
(***************************************************************************)
\* The shape {data: {children: [{kind, data}, ...]}}.
WellShaped(listing) ==
  /\ IsDict(listing) /\ Has(listing, "data")
  /\ IsDict(listing.d["data"]) /\ Has(listing.d["data"], "children")
  /\ listing.d["data"].d["children"].ty = "list"
  /\ \A i \in 1..Len(listing.d["data"].d["children"].items) :
       LET e == listing.d["data"].d["children"].items[i]
       IN IsDict(e) /\ Has(e, "kind") /\ Has(e, "data")

\* C1: a listing that is not well shaped is built without raising, into the empty sequence.
C1_MalformedYieldsEmpty ==
  (pc \in {"built", "raised"} /\ ~WellShaped(comments_data))
    => (pc = "built" /\ comments = Ok(<<>>))

(***************************************************************************)
(* C2: every non-empty line a reply at nesting depth d >= 1 contributes    *)
(* (attribution, separators, each body line) begins with exactly d quote   *)
(* markers; the lines of a top-level comment carry none.                   *)
(***************************************************************************)
\* The lines comment number k (in pre-order) contributes itself: its attribution
\* line (at index h), the separator after it, its body lines, the separator after them.
OwnLines(h, c) == h..(h + Len(Split(Str(c.body))) + 2)

ExactlyDepthMarkers(lines, hs, cs) ==
  /\ Len(hs) = Len(cs)
  /\ \A k \in 1..Len(cs) :
       \A j \in OwnLines(hs[k], cs[k]) :
         /\ j <= Len(lines)
         /\ lines[j] /= <<>> => MarkerCount(lines[j]) = cs[k].depth

\* C2 as stated: exactly d markers on every non-empty own line, none at depth 0.
C2_ExactlyDepthMarkers ==
  Rendered => ExactlyDepthMarkers(MdLines, MdAttributions, MdComments)

QuotePrefix(lines, hs, cs) ==
  /\ Len(hs) = Len(cs)
  /\ \A k \in 1..Len(cs) :
       LET c == cs[k]
           d == c.depth
           h == hs[k]
           body_lines == Split(Str(c.body))
           nb == Len(body_lines)
           quote == IF d = 0 THEN <<>> ELSE Markers(d) \o <<" ">>
       IN /\ h + nb + 2 <= Len(lines)
          /\ lines[h] = quote \o AttributionOf(c)
          /\ lines[h + 1] = Markers(d)
          /\ \A j \in 1..nb : lines[h + 1 + j] = quote \o body_lines[j]
          /\ lines[h + nb + 2] = Markers(d)
          /\ \A j \in OwnLines(h, c) :
               d >= 1 => (lines[j] /= <<>> /\ MarkerCount(lines[j]) = d)

\* C2 amended: at depth d >= 1 every own line is d markers, then nothing (a
\* separator) or a space and the content; at depth 0 the Renderer adds no marker:
\* the attribution line and the body lines stand as they are, so that a line begins
\* with ">" exactly when the comment's own text does.
C2_QuotePrefix ==
  Rendered => QuotePrefix(MdLines, MdAttributions, MdComments)

\* A reply at depth 2 with a multi-line body under a top-level comment whose body
\* starts with ">" has been rendered.
QuotedReplies(cs) ==
  /\ \E k \in 1..Len(cs) : cs[k].depth = 2 /\ Len(Split(Str(cs[k].body))) > 1
  /\ \E k \in 1..Len(cs) : cs[k].depth = 0 /\ Str(cs[k].body)[1] = ">"

C2_Witness ==
  Rendered /\ QuotedReplies(MdComments)

(***************************************************************************)
(* C3: whenever a timestamp is absent the rendered date is the literal     *)
(* "Unknown date", on the post's attribution line and on every comment's.  *)
(***************************************************************************)
HoldsToken(line, tok) == \E i \in 1..Len(line) : line[i] = tok

\* The post's attribution line.
IsPostAttribution(line) ==
  HoldsToken(line, "**Posted by [u/") \/ HoldsToken(line, "**Posted by u/")

UnknownDate(lines, hs, cs) ==
  /\ ~Truthy(Get(post_data, "created_utc", JNull)) =>
       \E j \in 1..Len(lines) :
         IsPostAttribution(lines[j]) /\ HoldsToken(lines[j], "Unknown date")
  /\ Len(hs) = Len(cs)
  /\ \A k \in 1..Len(cs) :
       ~Truthy(cs[k].created_utc) => HoldsToken(lines[hs[k]], "Unknown date")

\* C3: the post's attribution line, and the attribution line of every comment
\* without a timestamp, holds "Unknown date".
C3_UnknownDate ==
  Rendered => UnknownDate(MdLines, MdAttributions, MdComments)

(***************************************************************************)
(* C5: in the Builder's tree every top-level Comment has depth 0, every    *)
(* reply has its parent's depth + 1, and replies is always a sequence.     *)
(***************************************************************************)
RECURSIVE DepthsFrom(_, _)
DepthsFrom(cs, d) ==
  \A i \in 1..Len(cs) :
    /\ cs[i].depth = d
    /\ "replies" \in DOMAIN cs[i]
    /\ DOMAIN cs[i].replies = 1..Len(cs[i].replies)
    /\ DepthsFrom(cs[i].replies, d + 1)

\* C5: top-level depth 0, each reply one deeper than its parent, replies always a sequence.
C5_DepthInvariant ==
  pc \in {"built", "rendered"} => DepthsFrom(comments.val, 0)

\* A tree three levels deep, and a leaf, have been built.
DeepAndLeaf(cs) ==
  /\ \E k \in 1..Len(cs) : cs[k].depth = 2
  /\ \E k \in 1..Len(cs) : cs[k].replies = <<>>

C5_Witness ==
  pc = "built" /\ DeepAndLeaf(MdComments)

(***************************************************************************)
(* C6: a "more" entry never produces a Comment, nothing nested under it    *)
(* appears in the tree or in the Markdown, and its siblings come out as    *)
(* they do without it, in source order.                                    *)
(***************************************************************************)
IsMore(e) == IsDict(e) /\ Has(e, "kind") /\ IsLit(e.d["kind"], "more")

\* The listing with every "more" entry taken out, at every level.
RECURSIVE WithoutMore(_)
RECURSIVE WithoutMoreIn(_)
WithoutMoreIn(children) ==
  IF children = <<>> THEN <<>>
  ELSE LET e == Head(children) IN
    IF IsMore(e) THEN WithoutMoreIn(Tail(children))
    ELSE IF IsDict(e) /\ Has(e, "data") /\ IsDict(e.d["data"]) /\ Has(e.d["data"], "replies")
    THEN <<JDict([e.d EXCEPT !["data"] =
                    JDict([@.d EXCEPT !["replies"] = WithoutMore(@)])])>>
         \o WithoutMoreIn(Tail(children))
    ELSE <<e>> \o WithoutMoreIn(Tail(children))

WithoutMore(listing) ==
  IF WellShaped(listing)
  THEN JDict([listing.d EXCEPT !["data"] =
                JDict([@.d EXCEPT !["children"] = JList(WithoutMoreIn(@.items))])])
  ELSE listing

\* The entries of a listing that are "more" placeholders, at any level.
RECURSIVE CountMore(_)
CountMore(children) ==
  IF children = <<>> THEN 0
  ELSE LET e == Head(children) IN
    (IF IsMore(e) THEN 1
     ELSE IF Has(e.d["data"], "replies") /\ WellShaped(e.d["data"].d["replies"])
          THEN CountMore(e.d["data"].d["replies"].d["data"].d["children"].items)
          ELSE 0)
    + CountMore(Tail(children))

\* C6: the tree is the tree of the listing without its "more" entries, and what
\* is nested under a "more" entry is neither in the tree nor in the Markdown.
C6_MoreDropped ==
  (pc \in {"built", "rendered"} /\ WellShaped(comments_data)) =>
    /\ comments = process_comments(WithoutMore(comments_data), 0)
    /\ LET cs == MdComments IN \A k \in 1..Len(cs) : cs[k].author /= JStr(<<"ghost">>)
    /\ Rendered => \A i \in 1..Len(markdown) : markdown[i] /= "ghost"

\* A listing with a "more" entry between two comments, and one under a comment,
\* has been rendered.
C6_Witness ==
  /\ Rendered
  /\ WellShaped(comments_data)
  /\ LET children == comments_data.d["data"].d["children"].items IN
       /\ \E i \in 2..(Len(children) - 1) :
            IsMore(children[i]) /\ ~IsMore(children[i - 1]) /\ ~IsMore(children[i + 1])
       /\ CountMore(children) >= 2
  /\ Len(comments.val) = 2

(***************************************************************************)
(* C7: an attribution (post, top-level comment or nested reply) whose      *)
(* author is "[deleted]" never holds a hyperlink; any other author's       *)
(* attribution links to https://www.reddit.com/user/<author>.              *)
(***************************************************************************)
LinkRule(line, author) ==
  IF author = DELETED
  THEN \A i \in 1..Len(line) : line[i] \notin LinkTokens
  ELSE LET name == Str(author)
           n == Len(name)
       IN \E i \in (n + 2)..(Len(line) - n - 1) :
            /\ line[i] = "](https://www.reddit.com/user/"
            /\ SubSeq(line, i + 1, i + n) = name
            /\ line[i + n + 1] = ")**"
            /\ SubSeq(line, i - n, i - 1) = name
            /\ line[i - n - 1] \in {"**[u/", "**Posted by [u/"}

LinksFollowAuthors(lines, hs, cs) ==
  /\ Len(hs) = Len(cs)
  /\ \A k \in 1..Len(cs) : LinkRule(lines[hs[k]], cs[k].author)
  /\ \E j \in 1..Len(lines) : IsPostAttribution(lines[j])
  /\ \A j \in 1..Len(lines) :
       IsPostAttribution(lines[j]) => LinkRule(lines[j], Get(post_data, "author", DELETED))

\* C7: every attribution line links to the author's profile exactly when the
\* author is not "[deleted]".
C7_DeletedNeverLinked ==
  Rendered => LinksFollowAuthors(MdLines, MdAttributions, MdComments)

\* Replies by a deleted and by a named author under a post whose author is deleted.
DeletedAndNamed(cs) ==
  /\ \E k \in 1..Len(cs) : cs[k].depth >= 1 /\ cs[k].author = DELETED
  /\ \E k \in 1..Len(cs) : cs[k].depth >= 1 /\ cs[k].author /= DELETED
  /\ \E k \in 1..Len(cs) : cs[k].depth = 0 /\ cs[k].author /= DELETED

C7_Witness ==
  /\ Rendered
  /\ Has(post_data, "author") /\ post_data.d["author"] = DELETED
  /\ DeletedAndNamed(MdComments)

(***************************************************************************)
(* C8: "No comments found." and no "Comments (" heading exactly when the   *)
(* tree is empty; otherwise the heading "Comments (N top-level comments)"  *)
(* with N the number of top-level comments, then each top-level comment's  *)
(* rendering, each ended by one horizontal rule.                           *)
(***************************************************************************)
CommentsSection(lines, cs) ==
  LET notices == {j \in 1..Len(lines) : lines[j] = <<"No comments found.">>}
      headings == {j \in 1..Len(lines) : HoldsToken(lines[j], "## Comments (")}
      N == Len(cs)
  IN /\ (cs = <<>>) <=> (notices /= {})
     /\ (cs = <<>>) <=> (headings = {})
     /\ cs /= <<>> =>
          \E h \in headings :
            LET tops == SortedSeq({j \in 1..Len(lines) :
                                     IsAttribution(lines[j]) /\ MarkerCount(lines[j]) = 0})
                rules == SortedSeq({j \in (h + 1)..Len(lines) : lines[j] = <<"---">>})
            IN /\ headings = {h}
               /\ lines[h] = <<"## Comments (", ToString(N), " top-level comments)">>
               /\ Len(tops) = N
               /\ Len(rules) = N
               /\ \A k \in 1..N :
                    /\ h < tops[k]
                    /\ tops[k] < rules[k]
                    /\ k < N => rules[k] < tops[k + 1]
                    /\ lines[tops[k]] = AttributionOf(cs[k])
               /\ \A j \in (rules[N] + 1)..Len(lines) : lines[j] = <<>>

\* C8: the notice iff the tree is empty; else the heading with the number of
\* top-level comments, and each top-level comment ended by one horizontal rule.
C8_CommentsSection ==
  Rendered => CommentsSection(MdLines, comments.val)

\* A listing whose only children are "more" placeholders has been rendered.
C8_Witness ==
  /\ Rendered
  /\ comments.val = <<>>
  /\ WellShaped(comments_data)
  /\ LET children == comments_data.d["data"].d["children"].items IN
       children /= <<>> /\ \A i \in 1..Len(children) : IsMore(children[i])
  /\ HoldsToken(markdown, "No comments found.")

(***************************************************************************)
(* C10: the Markdown holds exactly one attribution per Comment of the tree *)
(* (count_all_comments of them), in depth-first pre-order with siblings in *)
(* source order.                                                           *)
(***************************************************************************)
AttributionsInPreOrder(lines, hs, cs) ==
  /\ Len(hs) = count_all_comments(comments.val)
  /\ Len(hs) = Len(cs)
  /\ \A k \in 1..Len(cs) : Unquoted(lines[hs[k]]) = AttributionOf(cs[k])

\* C10: the attribution lines are those of the tree's comments, one each, in pre-order.
C10_OneAttributionPerComment ==
  Rendered => AttributionsInPreOrder(MdLines, MdAttributions, MdComments)

\* The deep thread (seven comments on four levels, different siblings) has been rendered.
C10_Witness ==
  /\ Rendered
  /\ comments_data = DeepThread
  /\ Len(MdAttributions) = 7

(***************************************************************************)
(* C4: the output file is written at most once, and only after the fetch   *)
(* succeeded, the JSON shape was accepted and the whole Markdown was       *)
(* assembled; a run that ends in an error before the write leaves the      *)
(* output files as they were, and no GET or write is done a second time.   *)
(***************************************************************************)
Ops(name) == SelectSeq(io, LAMBDA e : e.op = name)

\* The run ended in an error before the write: invalid URL, failed request or
\* 429, rejected shape, any other exception.
EndedInError == pc \in {"value_error", "exit", "error"}

\* C4: at most one GET and one write; the write comes after the GET, the accepted
\* shape and the assembled Markdown; a run ending in an error wrote nothing.
C4_SingleWriteAfterAssembly ==
  /\ Len(Ops("GET")) <= 1
  /\ Len(Ops("WRITE")) <= 1
  /\ Ops("WRITE") /= <<>> =>
       /\ Len(io) = 2 /\ io[1].op = "GET" /\ io[2].op = "WRITE"
       /\ data.ty = "list" /\ Len(data.items) >= 2
       /\ IsDict(post_data)
       /\ comments.err = "none"
       /\ markdown /= <<>>
       /\ markdown = generate_markdown(post_data, comments.val, original_url)
       /\ pc \in {"done", "write_error"}
  /\ pc = "done" =>
       /\ Len(Ops("WRITE")) = 1
       /\ fs.files[Ops("WRITE")[1].url] = markdown
  /\ EndedInError =>
       /\ Ops("WRITE") = <<>>
       /\ \A f \in DOMAIN fs.files : fs.files[f] = OldContent
  /\ pc \in {"start", "extract", "fetch", "shape", "process", "generate", "write"} =>
       \A f \in DOMAIN fs.files : fs.files[f] = OldContent

\* A run has fetched, built, rendered and written its file over an older one.
C4_Witness ==
  /\ pc = "done"
  /\ Len(Ops("WRITE")) = 1
  /\ "File already exists" \in {out[i] : i \in 1..Len(out)}
  /\ fs.files[Ops("WRITE")[1].url] /= OldContent

(***************************************************************************)
(* C9: the GET is sent only when the host of the scheme-normalized URL is  *)
(* one of reddit.com, www.reddit.com, old.reddit.com; for any other host   *)
(* the run reports an invalid URL and ends with no GET and no write.       *)
(***************************************************************************)
HostAllowed(url) == netloc(normalized(url)) \in RedditDomains

\* C9: a GET is sent only for a listed Reddit host; any other host ends the run
\* with the invalid-URL report, no GET and no write.
C9_GetOnlyForRedditHosts ==
  /\ Ops("GET") /= <<>> => HostAllowed(reddit_url)
  /\ (pc \notin {"start", "extract", "fetch"} /\ ~HostAllowed(reddit_url)) =>
       /\ pc = "value_error"
       /\ io = <<>>
       /\ out[Len(out)] = "Value error: Invalid Reddit URL"

====
